---- MODULE Spec2Model ----
(***************************************************************************)
(* Model of the bonding-curve parameter searches                           *)
(*   src/script/sepoliaSimulations/find_constant_product_params.py         *)
(*       (called the "plain" script below)                                 *)
(*   src/simulations/script/find_constant_product_params_with_graduation_fee.py *)
(*       (called the "fee" script below; its definitions carry _fee)       *)
(* and of the tick / sqrtPrice conversion helpers.                         *)
(*                                                                         *)
(* Python integers are unbounded and the scripts work at 10^18 .. 10^45.   *)
(* The model keeps every formula of the source and scales the unit         *)
(* constants down (WAD, the token supply), keeping the ratios the          *)
(* arithmetic depends on: TARGET_TOKENS = TOTAL_SUPPLY / 5,                *)
(* TARGET_ETH = 8.5 ETH, TARGET_FEE_ETH = 0.5 ETH, and                     *)
(* 2 * TARGET_ETH_WEI < TOTAL_SUPPLY - TARGET_TOKENS.                      *)
(*                                                                         *)
(* A Decimal amount of ETH passed to search() is represented by the        *)
(* integer q with value q / (WAD * SubWei) ETH, so that amounts finer than *)
(* one wei exist.  A Decimal quotient is represented by the exact fraction *)
(* <<numerator, denominator>> with denominator > 0.                        *)
(***************************************************************************)
EXTENDS Integers, FiniteSets, Sequences, TLC

\* ------------------------------------------------------------------------
\* Bounds of the explored arguments
\* ------------------------------------------------------------------------
\* amounts of ETH are written in units of 1 / SubWei wei
SubWei == 2
\* the amounts tried up to a maximum: every multiple of 1 / SubWei wei up to
\* one wei (and one negative amount), whole wei above
EthAmounts(max) == {q \in -1 .. max : q <= SubWei \/ q % SubWei = 0}
\* largest min_e0_eth / max_e0_eth argument of the plain script, in 1/SubWei wei
MaxArg == 16
\* largest step_e0_eth argument of the plain script, in 1/SubWei wei
MaxStepArg == 6
\* largest min_e0_eth / max_e0_eth argument of the fee script, in 1/SubWei wei
MaxArgFee == 14
\* largest step_e0_eth argument of the fee script, in 1/SubWei wei
MaxStepFee == 4
\* largest t0_window argument
MaxWindow == 2

\* ------------------------------------------------------------------------
\* Module constants of both scripts (scaled)
\* ------------------------------------------------------------------------
WAD == 2
TOTAL_SUPPLY == 250 * WAD
TARGET_ETH_WEI == (17 * WAD) \div 2
TARGET_TOKENS == 50 * WAD
TARGET_FEE_WEI == WAD \div 2

None == [none |-> TRUE]

Abs(x) == IF x < 0 THEN -x ELSE x

\* int(): truncation toward zero of the fraction n / d, d > 0
Trunc(n, d) == IF n >= 0 THEN n \div d ELSE -((-n) \div d)

\* ------------------------------------------------------------------------
\* find_constant_product_params.py
\* ------------------------------------------------------------------------
\* to_wei rounding up instead of truncating
to_wei_ceil(value_eth) == -((-(value_eth * WAD)) \div (WAD * SubWei))

to_wei(value_eth) == Trunc(value_eth * WAD, WAD * SubWei)

reserves_from_eth(k, t0, e0, eth_reserves) == (k \div (eth_reserves + e0)) - t0

t0_real_numerator(e0) ==
    (TOTAL_SUPPLY - TARGET_TOKENS) * e0 - TARGET_TOKENS * TARGET_ETH_WEI

\* evaluate_candidate without its t0 < 0 guard and identity check
evaluate_candidate_unguarded(e0, t0) ==
    LET k == (TOTAL_SUPPLY + t0) * e0
        t_at_zero == reserves_from_eth(k, t0, e0, 0)
        t_at_target == reserves_from_eth(k, t0, e0, TARGET_ETH_WEI)
    IN  IF e0 <= 0 THEN None
        ELSE [k |-> k, t0 |-> t0, e0 |-> e0, t_at_zero |-> t_at_zero,
              t_at_target |-> t_at_target,
              target_error |-> Abs(t_at_target - TARGET_TOKENS)]

evaluate_candidate(e0, t0) ==
    IF e0 <= 0 \/ t0 < 0 THEN None
    ELSE LET k == (TOTAL_SUPPLY + t0) * e0
             t_at_zero == reserves_from_eth(k, t0, e0, 0)
         IN  IF t_at_zero # TOTAL_SUPPLY THEN None
             ELSE LET t_at_target == reserves_from_eth(k, t0, e0, TARGET_ETH_WEI)
                      err == Abs(t_at_target - TARGET_TOKENS)
                  IN  [k |-> k, t0 |-> t0, e0 |-> e0, t_at_zero |-> t_at_zero,
                       t_at_target |-> t_at_target, target_error |-> err]

\* the five values tried around floor_t0 at one e0 (a Python set)
candidate_t0_values(e0) ==
    LET floor_t0 == t0_real_numerator(e0) \div TARGET_ETH_WEI
    IN  {floor_t0 - 2, floor_t0 - 1, floor_t0, floor_t0 + 1, floor_t0 + 2}

\* the replacement test that never takes the first candidate
replaces_without_first(cand, b) ==
    IF b = None THEN FALSE
    ELSE IF cand.target_error < b.target_error THEN TRUE
    ELSE cand.target_error = b.target_error /\ cand.e0 < b.e0

\* the replacement test with the comparison reversed
replaces_worst(cand, b) ==
    IF b = None THEN TRUE
    ELSE cand.target_error > b.target_error

\* does cand replace the best so far (lines 104-113 of search)
replaces(cand, b) ==
    IF b = None THEN TRUE
    ELSE IF cand.target_error < b.target_error THEN TRUE
    ELSE cand.target_error = b.target_error /\ cand.e0 < b.e0


\* ------------------------------------------------------------------------
\* Exact fractions <<n, d>>, d > 0, in lowest terms (the Decimal values)
\* ------------------------------------------------------------------------
RECURSIVE Gcd(_, _)
Gcd(a, b) == IF b = 0 THEN a ELSE Gcd(b, a % b)

Frac(n, d) ==
    LET g == Gcd(Abs(n), Abs(d))
        sgn == IF d < 0 THEN -1 ELSE 1
    IN  <<sgn * (n \div g), sgn * (d \div g)>>

FracOfInt(n) == <<n, 1>>
FracAdd(a, b) == Frac(a[1] * b[2] + b[1] * a[2], a[2] * b[2])
FracSub(a, b) == Frac(a[1] * b[2] - b[1] * a[2], a[2] * b[2])
FracMul(a, b) == Frac(a[1] * b[1], a[2] * b[2])
FracDiv(a, b) == Frac(a[1] * b[2], a[2] * b[1])
FracAbs(a) == <<Abs(a[1]), a[2]>>

\* n1/d1 < n2/d2 for d1, d2 > 0, by comparing integer parts and then the
\* reciprocals of the fractional parts (no product is formed)
RECURSIVE RatLess(_, _, _, _)
RatLess(n1, d1, n2, d2) ==
    LET q1 == n1 \div d1
        q2 == n2 \div d2
        r1 == n1 % d1
        r2 == n2 % d2
    IN  IF q1 # q2 THEN q1 < q2
        ELSE IF r2 = 0 THEN FALSE
        ELSE IF r1 = 0 THEN TRUE
        ELSE RatLess(d2, r2, d1, r1)

FracLess(a, b) == RatLess(a[1], a[2], b[1], b[2])
FracLeq(a, b) == ~FracLess(b, a)

\* ------------------------------------------------------------------------
\* find_constant_product_params_with_graduation_fee.py
\* ------------------------------------------------------------------------
to_wei_fee(value_eth) == Trunc(value_eth * WAD, WAD * SubWei)

reserves_from_eth_fee(k, t0, e0, eth_reserves) == (k \div (eth_reserves + e0)) - t0

t0_real_numerator_fee(e0) ==
    (TOTAL_SUPPLY - TARGET_TOKENS) * e0 - TARGET_TOKENS * TARGET_ETH_WEI

score_candidate(token_error_wei, fee_error_wei, price_deviation_ratio, w_token, w_fee, w_price, fee_for_price_match_wei) ==
    LET token_error_ratio == Frac(token_error_wei, TARGET_TOKENS)
        fee_error_ratio == Frac(fee_error_wei, TARGET_FEE_WEI)
        score == FracAdd(FracAdd(FracMul(FracOfInt(w_token), token_error_ratio),
                                 FracMul(FracOfInt(w_fee), fee_error_ratio)),
                         FracMul(FracOfInt(w_price), price_deviation_ratio))
    IN  IF fee_for_price_match_wei < 0 THEN FracAdd(score, FracOfInt(1)) ELSE score

evaluate_candidate_fee(e0, t0, target_fee_wei, w_token, w_fee, w_price) ==
    IF e0 <= 0 \/ t0 < 0 THEN None
    ELSE LET k == (TOTAL_SUPPLY + t0) * e0
             t_at_zero == reserves_from_eth_fee(k, t0, e0, 0)
             t_at_grad == reserves_from_eth_fee(k, t0, e0, TARGET_ETH_WEI)
             token_error_wei == Abs(t_at_grad - TARGET_TOKENS)
             price_curve == Frac((TARGET_ETH_WEI + e0) * (TARGET_ETH_WEI + e0), k)
             uni_eth_after_target_fee == TARGET_ETH_WEI - target_fee_wei
             price_uni_with_target_fee == Frac(uni_eth_after_target_fee, t_at_grad)
             price_deviation_ratio ==
                 FracDiv(FracAbs(FracSub(price_uni_with_target_fee, price_curve)),
                         price_curve)
             match == FracSub(FracOfInt(TARGET_ETH_WEI),
                              FracMul(FracOfInt(t_at_grad), price_curve))
             fee_for_price_match_wei == Trunc(match[1], match[2])
             fee_error_wei == Abs(fee_for_price_match_wei - target_fee_wei)
         IN  IF t_at_zero # TOTAL_SUPPLY THEN None
             ELSE IF t_at_grad <= 0 THEN None
             ELSE IF uni_eth_after_target_fee <= 0 THEN None
             ELSE IF price_curve[1] = 0 THEN None
             ELSE [k |-> k, t0 |-> t0, e0 |-> e0, t_at_zero |-> t_at_zero,
                   t_at_grad |-> t_at_grad,
                   token_error_wei |-> token_error_wei,
                   fee_for_price_match_wei |-> fee_for_price_match_wei,
                   fee_error_wei |-> fee_error_wei,
                   price_curve |-> price_curve,
                   price_uni_with_target_fee |-> price_uni_with_target_fee,
                   price_deviation_ratio |-> price_deviation_ratio,
                   score |-> score_candidate(token_error_wei, fee_error_wei,
                                             price_deviation_ratio, w_token, w_fee,
                                             w_price, fee_for_price_match_wei)]

floor_t0_fee(x) == t0_real_numerator_fee(x) \div TARGET_ETH_WEI

\* the range started one value early
range_start_early(x, t0_window) == floor_t0_fee(x) - t0_window - 1

\* range(floor_t0 - t0_window, floor_t0 + t0_window + 1): first value and bound
range_start(x, t0_window) == floor_t0_fee(x) - t0_window
range_stop(x, t0_window) == floor_t0_fee(x) + t0_window + 1

\* the replacement test with the comparison reversed
replaces_fee_worst(cand, b) ==
    IF b = None THEN TRUE ELSE FracLess(b.score, cand.score)

\* the replacement test taking a candidate of equal score too
replaces_fee_on_ties(cand, b) ==
    IF b = None THEN TRUE ELSE FracLeq(cand.score, b.score)

\* does cand replace the best so far (line 189 of search)
replaces_fee(cand, b) ==
    IF b = None THEN TRUE ELSE FracLess(cand.score, b.score)

\* no conversion helper is running
NoConv == [fn |-> "none"]

VARIABLES
    script,     \* "plain" or "fee": which script's search() is running
    args,       \* the arguments of the call
    pc,         \* position in search(): "validate", "outer", "inner", "finish", "done"
    e0,         \* the scan variable
    todo,       \* plain: the t0 values of candidate_t0_values not yet visited
    t0next,     \* fee: the next t0 of the range
    best,       \* the best candidate so far, or None
    outcome,    \* "running", "ValueError", "RuntimeError" or "returned"
    evaluated,  \* history: the candidates evaluate_candidate has returned
    run,        \* 1 for the first call, 2 for the second call of a comparison
    prev,       \* outcome and result of the first call, once the second started
    args2,      \* the arguments of the second call of a comparison
    conv,       \* a conversion helper at work: its input, intermediate and result
    iterations, \* history: the bodies of the while loop entered so far
    tried       \* history: the t0 values evaluated in the current body

vars == <<script, args, pc, e0, todo, t0next, best, outcome, evaluated, run, prev, args2, conv,
          iterations, tried>>

min_e0 == to_wei(args.min_e0_eth)
max_e0 == to_wei(args.max_e0_eth)
step_e0 == to_wei(args.step_e0_eth)

PlainArgs ==
    { [min_e0_eth |-> a, max_e0_eth |-> b, step_e0_eth |-> s, t0_window |-> 0,
       target_fee_eth |-> 0, w_token |-> 0, w_fee |-> 0, w_price |-> 0] :
        a \in EthAmounts(MaxArg), b \in EthAmounts(MaxArg), s \in EthAmounts(MaxStepArg) }

Start(s, a, a2) ==
    /\ script = s
    /\ args = a
    /\ pc = "validate"
    /\ e0 = 0
    /\ todo = {}
    /\ t0next = 0
    /\ best = None
    /\ outcome = "running"
    /\ evaluated = {}
    /\ run = 1
    /\ prev = None
    /\ args2 = a2
    /\ conv = NoConv
    /\ iterations = 0
    /\ tried = 0

\* search(), lines 72-85: conversion, the three range checks, e0 = min_e0
PlainValidate ==
    /\ script = "plain" /\ pc = "validate"
    /\ IF min_e0 <= 0 \/ max_e0 < min_e0 \/ step_e0 <= 0
       THEN /\ outcome' = "ValueError"
            /\ pc' = "done"
            /\ e0' = e0
       ELSE /\ e0' = min_e0
            /\ pc' = "outer"
            /\ outcome' = outcome
    /\ UNCHANGED <<script, args, todo, t0next, best, evaluated, run, prev, args2, conv,
                 iterations, tried>>

\* the loop test of line 86 written e0 < max_e0
PlainOuter_strict ==
    /\ script = "plain" /\ pc = "outer"
    /\ IF e0 < max_e0
       THEN /\ todo' = candidate_t0_values(e0)
            /\ pc' = "inner"
            /\ iterations' = iterations + 1
            /\ tried' = 0
       ELSE /\ todo' = todo
            /\ pc' = "finish"
            /\ UNCHANGED <<iterations, tried>>
    /\ UNCHANGED <<script, args, e0, t0next, best, outcome, evaluated, run, prev, args2, conv>>

\* search(), lines 86-97: the loop test and the set of t0 values for this e0
PlainOuter ==
    /\ script = "plain" /\ pc = "outer"
    /\ IF e0 <= max_e0
       THEN /\ todo' = candidate_t0_values(e0)
            /\ pc' = "inner"
            /\ iterations' = iterations + 1
            /\ tried' = 0
       ELSE /\ todo' = todo
            /\ pc' = "finish"
            /\ UNCHANGED <<iterations, tried>>
    /\ UNCHANGED <<script, args, e0, t0next, best, outcome, evaluated, run, prev, args2, conv>>

\* search(), lines 99-113: one iteration of the for loop over the set, in
\* whatever order the set yields its elements
PlainInner ==
    /\ script = "plain" /\ pc = "inner" /\ todo # {}
    /\ \E t0 \in todo :
         LET cand == evaluate_candidate(e0, t0)
         IN  /\ todo' = todo \ {t0}
             /\ IF cand = None
                THEN UNCHANGED <<best, evaluated>>
                ELSE /\ evaluated' = evaluated \cup {cand}
                     /\ best' = IF replaces(cand, best) THEN cand ELSE best
    /\ tried' = tried + 1
    /\ UNCHANGED <<script, args, pc, e0, t0next, outcome, run, prev, args2, conv, iterations>>

\* search(), line 115: e0 += step_e0 once the set is exhausted
PlainAdvance ==
    /\ script = "plain" /\ pc = "inner" /\ todo = {}
    /\ e0' = e0 + step_e0
    /\ pc' = "outer"
    /\ UNCHANGED <<script, args, todo, t0next, best, outcome, evaluated, run, prev, args2, conv,
                 iterations, tried>>

\* search(), lines 117-120
PlainFinish ==
    /\ script = "plain" /\ pc = "finish"
    /\ outcome' = IF best = None THEN "RuntimeError" ELSE "returned"
    /\ pc' = "done"
    /\ UNCHANGED <<script, args, e0, todo, t0next, best, evaluated, run, prev, args2, conv,
                 iterations, tried>>

PlainNext == PlainValidate \/ PlainOuter \/ PlainInner \/ PlainAdvance \/ PlainFinish

InitPlain == \E a \in PlainArgs : Start("plain", a, a)

SpecPlain == InitPlain /\ [][PlainNext]_vars

\* ------------------------------------------------------------------------
\* search() of the fee script
\* ------------------------------------------------------------------------
min_e0_fee == to_wei_fee(args.min_e0_eth)
max_e0_fee == to_wei_fee(args.max_e0_eth)
step_e0_fee == to_wei_fee(args.step_e0_eth)
target_fee_wei == to_wei_fee(args.target_fee_eth)

\* the weights tried
Weights == {0, 1}
\* the target fees tried, in 1/SubWei wei: below one wei, 0.5 ETH, 1.5 ETH, TARGET_ETH
TargetFees == {1, SubWei * TARGET_FEE_WEI, SubWei * 3 * TARGET_FEE_WEI, SubWei * TARGET_ETH_WEI}

FeeArgs ==
    { [min_e0_eth |-> a, max_e0_eth |-> b, step_e0_eth |-> s, t0_window |-> w,
       target_fee_eth |-> f, w_token |-> wt, w_fee |-> wf, w_price |-> wp] :
        a \in EthAmounts(MaxArgFee), b \in EthAmounts(MaxArgFee),
        s \in EthAmounts(MaxStepFee),
        w \in -1 .. MaxWindow, f \in TargetFees,
        wt \in Weights, wf \in Weights, wp \in Weights }

\* search(), lines 156-174: conversion, the five checks, e0 = min_e0
FeeValidate ==
    /\ script = "fee" /\ pc = "validate"
    /\ IF \/ min_e0_fee <= 0
          \/ max_e0_fee < min_e0_fee
          \/ step_e0_fee <= 0
          \/ args.t0_window < 0
          \/ target_fee_wei <= 0 \/ target_fee_wei >= TARGET_ETH_WEI
       THEN /\ outcome' = "ValueError"
            /\ pc' = "done"
            /\ e0' = e0
       ELSE /\ e0' = min_e0_fee
            /\ pc' = "outer"
            /\ outcome' = outcome
    /\ UNCHANGED <<script, args, todo, t0next, best, evaluated, run, prev, args2, conv,
                 iterations, tried>>

\* search(), lines 175-177: the loop test and the start of the t0 range
FeeOuter ==
    /\ script = "fee" /\ pc = "outer"
    /\ IF e0 <= max_e0_fee
       THEN /\ t0next' = range_start(e0, args.t0_window)
            /\ pc' = "inner"
            /\ iterations' = iterations + 1
            /\ tried' = 0
       ELSE /\ t0next' = t0next
            /\ pc' = "finish"
            /\ UNCHANGED <<iterations, tried>>
    /\ UNCHANGED <<script, args, e0, todo, best, outcome, evaluated, run, prev, args2, conv>>

\* search(), lines 177-190: one iteration of the for loop over the range
FeeInner ==
    /\ script = "fee" /\ pc = "inner"
    /\ t0next < range_stop(e0, args.t0_window)
    /\ LET cand == evaluate_candidate_fee(e0, t0next, target_fee_wei,
                                          args.w_token, args.w_fee, args.w_price)
       IN  IF cand = None
           THEN UNCHANGED <<best, evaluated>>
           ELSE /\ evaluated' = evaluated \cup {cand}
                /\ best' = IF replaces_fee(cand, best) THEN cand ELSE best
    /\ t0next' = t0next + 1
    /\ tried' = tried + 1
    /\ UNCHANGED <<script, args, pc, e0, todo, outcome, run, prev, args2, conv, iterations>>

\* search(), line 192: e0 += step_e0 once the range is exhausted
FeeAdvance ==
    /\ script = "fee" /\ pc = "inner"
    /\ t0next >= range_stop(e0, args.t0_window)
    /\ e0' = e0 + step_e0_fee
    /\ pc' = "outer"
    /\ UNCHANGED <<script, args, todo, t0next, best, outcome, evaluated, run, prev, args2, conv,
                 iterations, tried>>

\* search(), lines 194-197
FeeFinish ==
    /\ script = "fee" /\ pc = "finish"
    /\ outcome' = IF best = None THEN "RuntimeError" ELSE "returned"
    /\ pc' = "done"
    /\ UNCHANGED <<script, args, e0, todo, t0next, best, evaluated, run, prev, args2, conv,
                 iterations, tried>>

FeeNext == FeeValidate \/ FeeOuter \/ FeeInner \/ FeeAdvance \/ FeeFinish

InitFee == \E a \in FeeArgs : Start("fee", a, a)

SpecFee == InitFee /\ [][FeeNext]_vars

\* ------------------------------------------------------------------------
\* One call of search() of either script
\* ------------------------------------------------------------------------
Init == InitPlain \/ InitFee

Next == PlainValidate \/ PlainOuter \/ PlainInner \/ PlainAdvance \/ PlainFinish
        \/ FeeValidate \/ FeeOuter \/ FeeInner \/ FeeAdvance \/ FeeFinish

Spec == Init /\ [][Next]_vars

\* the same call run to its end: the interpreter executes the next statement
\* of a single-threaded script whenever there is one
SpecTerminates == Init /\ [][Next]_vars /\ WF_vars(Next)

\* ------------------------------------------------------------------------
\* Two calls of search() one after the other, for the comparisons of two
\* scans: the second call starts from fresh locals with the arguments args2
\* ------------------------------------------------------------------------
Rerun ==
    /\ pc = "done" /\ run = 1
    /\ prev' = [outcome |-> outcome, best |-> best, evaluated |-> evaluated, args |-> args]
    /\ args' = args2
    /\ run' = 2
    /\ pc' = "validate"
    /\ e0' = 0
    /\ todo' = {}
    /\ t0next' = 0
    /\ best' = None
    /\ outcome' = "running"
    /\ evaluated' = {}
    /\ iterations' = 0
    /\ tried' = 0
    /\ UNCHANGED <<script, args2, conv>>

\* the plain search twice, with two steps
InitStep ==
    \E a \in PlainArgs, s2 \in EthAmounts(MaxStepArg) :
        Start("plain", a, [a EXCEPT !.step_e0_eth = s2])

NextStep == PlainValidate \/ PlainOuter \/ PlainInner \/ PlainAdvance \/ PlainFinish
            \/ Rerun

SpecStep == InitStep /\ [][NextStep]_vars

\* the fee search twice, with two windows
InitWindow ==
    \E a \in FeeArgs, w2 \in -1 .. MaxWindow :
        Start("fee", a, [a EXCEPT !.t0_window = w2])

NextWindow == FeeValidate \/ FeeOuter \/ FeeInner \/ FeeAdvance \/ FeeFinish
              \/ Rerun

SpecWindow == InitWindow /\ [][NextWindow]_vars

\* ------------------------------------------------------------------------
\* uniswapX96Pricing.py and uniswapV4Settings.py: ticks
\*
\* 1.0001 ** tick, sqrt and log are modelled by the real numbers they
\* compute; int() and % are exact.  The constants are scaled: the tick base
\* 1.0001 is TickBaseNum / TickBaseDen, Q96 = 2 ** 96 is 2 ** Q96Bits, the tick
\* spacing 200 is 4, and the ticks run over -LowTick .. HighTick.
\* ------------------------------------------------------------------------
Q96Bits == 6
TickBaseNum == 7
TickBaseDen == 6
tick_spacing == 4
\* the ticks tried are -LowTick .. HighTick
LowTick == 4
HighTick == 5

RECURSIVE Pow(_, _)
Pow(b, n) == IF n = 0 THEN 1 ELSE b * Pow(b, n - 1)

Q96 == Pow(2, Q96Bits)

\* 1.0001 ** tick as an exact fraction
TickPrice(tick) ==
    IF tick >= 0 THEN <<Pow(TickBaseNum, tick), Pow(TickBaseDen, tick)>>
    ELSE <<Pow(TickBaseDen, -tick), Pow(TickBaseNum, -tick)>>

\* the integer square root: the largest r with r * r <= n
Isqrt(n) == CHOOSE r \in 0 .. n : r * r <= n /\ n < (r + 1) * (r + 1)

\* int(sqrt(price) * Q96) for the price num / den: floor(sqrt(price * Q96 ^ 2))
SqrtTimesQ96(num, den) == Isqrt((num * Q96 * Q96) \div den)

tick_to_sqrtX96(tick) == SqrtTimesQ96(TickPrice(tick)[1], TickPrice(tick)[2])

\* the multiples of 200 the logarithm of a converted tick can fall on
GridFloors == {g \in -(LowTick + tick_spacing) .. HighTick : g % tick_spacing = 0}

\* tick - (tick % 200) for tick = log(price) / log(1.0001), price = (x / Q96) ** 2:
\* the multiple g of 200 with 1.0001 ** g <= price < 1.0001 ** (g + 200);
\* round() of that multiple is the multiple
sqrt_price_x96_to_tick(sqrt_price_x96) ==
    LET price == <<sqrt_price_x96 * sqrt_price_x96, Q96 * Q96>>
    IN  CHOOSE g \in GridFloors :
            /\ FracLeq(TickPrice(g), price)
            /\ FracLess(price, TickPrice(g + tick_spacing))

\* uniswapV4Settings.py: int((1.0001 ** (tick / 2)) * Q96)
tick_to_sqrt_x96(tick) == SqrtTimesQ96(TickPrice(tick)[1], TickPrice(tick)[2])

GridNearest(spacing) ==
    {g \in -(LowTick + spacing) .. (HighTick + spacing) : g % spacing = 0}

\* sqrt_x96_to_tick with the rounding replaced by flooring to the spacing
sqrt_x96_to_tick_floor(sqrt_x96, spacing) ==
    LET price == <<sqrt_x96 * sqrt_x96, Q96 * Q96>>
    IN  CHOOSE g \in GridNearest(spacing) :
            /\ FracLeq(TickPrice(g), price)
            /\ FracLess(price, TickPrice(g + spacing))

\* int(round(raw_tick / spacing) * spacing) for raw_tick = log(price, 1.0001):
\* the multiple g of spacing with g - spacing / 2 <= raw_tick <= g + spacing / 2,
\* a tie going to the even multiple (Python's round); spacing is even
sqrt_x96_to_tick(sqrt_x96, spacing) ==
    LET price == <<sqrt_x96 * sqrt_x96, Q96 * Q96>>
        half == spacing \div 2
        even(g) == (g \div spacing) % 2 = 0
    IN  CHOOSE g \in GridNearest(spacing) :
            /\ \/ FracLess(TickPrice(g - half), price)
               \/ TickPrice(g - half) = Frac(price[1], price[2]) /\ even(g)
            /\ \/ FracLess(price, TickPrice(g + half))
               \/ TickPrice(g + half) = Frac(price[1], price[2]) /\ even(g)

\* ------------------------------------------------------------------------
\* uniswapX96Pricing.py and liquidity.py: prices
\*
\* A float is <<m, e>>, the number m * 2 ^ e, with a significand of SigBits
\* bits (2 ^ (SigBits - 1) <= m < 2 ^ SigBits), or <<0, 0>>; every operation
\* rounds its exact result to the nearest float, ties to the even significand,
\* as IEEE 754 does with the 53 bits of a double.
\* ------------------------------------------------------------------------
SigBits == 5
\* the prices tried are m * 2 ^ e for -PriceExpLow <= e <= PriceExpHigh
PriceExpLow == 18
PriceExpHigh == 1

RECURSIVE BitLen(_)
BitLen(n) == IF n = 0 THEN 0 ELSE 1 + BitLen(n \div 2)

\* the float nearest n * 2 ^ e, n >= 0; sticky says the exact value lies
\* strictly above n * 2 ^ e (by less than one unit of n)
RoundFloat(n, e, sticky) ==
    IF n = 0 THEN <<0, 0>>
    ELSE LET len == BitLen(n)
         IN  IF len <= SigBits
             THEN <<n * Pow(2, SigBits - len), e - (SigBits - len)>>
             ELSE LET s == len - SigBits
                      q == n \div Pow(2, s)
                      r == n % Pow(2, s)
                      half == Pow(2, s - 1)
                      up == \/ r > half
                            \/ r = half /\ (sticky \/ q % 2 = 1)
                      q2 == IF up THEN q + 1 ELSE q
                  IN  IF q2 = Pow(2, SigBits)
                      THEN <<Pow(2, SigBits - 1), e + s + 1>>
                      ELSE <<q2, e + s>>

\* np.sqrt of a float
FloatSqrt(f) ==
    IF f[1] = 0 THEN <<0, 0>>
    ELSE LET m2 == IF f[2] % 2 = 0 THEN f[1] ELSE 2 * f[1]
             e2 == IF f[2] % 2 = 0 THEN f[2] ELSE f[2] - 1
             n == m2 * Pow(2, 2 * SigBits)
             r == Isqrt(n)
         IN  RoundFloat(r, (e2 \div 2) - SigBits, r * r # n)

\* float * float
FloatMul(f, g) == RoundFloat(f[1] * g[1], f[2] + g[2], FALSE)

\* int / int (true division by a power of two): the float nearest n / 2 ^ bits
IntDivPow2(n, bits) == RoundFloat(n, -bits, FALSE)

\* int() of a non-negative float
FloatToInt(f) ==
    IF f[2] >= 0 THEN f[1] * Pow(2, f[2]) ELSE f[1] \div Pow(2, -f[2])

\* float_price_to_sqrtX96 with the square root left out
float_price_to_sqrtX96_no_sqrt(price) ==
    FloatToInt(FloatMul(price, <<1, Q96Bits>>))

\* int(np.sqrt(price) * Q96)
float_price_to_sqrtX96(price) ==
    FloatToInt(FloatMul(FloatSqrt(price), <<1, Q96Bits>>))

\* (sqrtX96 / Q96) ** 2
sqrtX96_to_float_price(sqrtX96) ==
    LET v == IntDivPow2(sqrtX96, Q96Bits)
    IN  FloatMul(v, v)

\* liquidity.py: int(np.sqrt(price) * 2**96)
priceToSqrtPriceX96(price) ==
    FloatToInt(FloatMul(FloatSqrt(price), <<1, Q96Bits>>))

\* liquidity.py: (sqrtPriceX96 / 2**96) ** 2
sqrtPriceX96ToPrice(sqrtPriceX96) ==
    LET v == IntDivPow2(sqrtPriceX96, Q96Bits)
    IN  FloatMul(v, v)

\* ------------------------------------------------------------------------
\* One round trip through a pair of conversion helpers
\* ------------------------------------------------------------------------
Ticks == -LowTick .. HighTick

Prices ==
    { <<m, e>> : m \in Pow(2, SigBits - 1) .. (Pow(2, SigBits) - 1),
                 e \in -PriceExpLow .. PriceExpHigh }

ConvStart(fn, input) ==
    /\ conv = [fn |-> fn, stage |-> "input", input |-> input, sqrtX96 |-> 0,
               output |-> input]
    /\ script = "none"
    /\ args = None
    /\ pc = "idle"
    /\ e0 = 0
    /\ todo = {}
    /\ t0next = 0
    /\ best = None
    /\ outcome = "running"
    /\ evaluated = {}
    /\ run = 1
    /\ prev = None
    /\ args2 = None
    /\ iterations = 0
    /\ tried = 0

InitConv ==
    \/ \E t \in Ticks : ConvStart("x96tick", t)
    \/ \E t \in Ticks : ConvStart("v4tick", t)
    \/ \E price \in Prices : ConvStart("x96price", price)
    \/ \E price \in Prices : ConvStart("liquidity", price)

search_idle == <<script, args, pc, e0, todo, t0next, best, outcome, evaluated, run, prev, args2,
                 iterations, tried>>

Forward(fn, sqrtX96) ==
    /\ conv.fn = fn /\ conv.stage = "input"
    /\ conv' = [conv EXCEPT !.stage = "sqrt", !.sqrtX96 = sqrtX96]
    /\ UNCHANGED search_idle

Backward(fn, output) ==
    /\ conv.fn = fn /\ conv.stage = "sqrt"
    /\ conv' = [conv EXCEPT !.stage = "done", !.output = output]
    /\ UNCHANGED search_idle

X96TickForward == Forward("x96tick", tick_to_sqrtX96(conv.input))
X96TickBackward == Backward("x96tick", sqrt_price_x96_to_tick(conv.sqrtX96))
V4TickForward == Forward("v4tick", tick_to_sqrt_x96(conv.input))
V4TickBackward == Backward("v4tick", sqrt_x96_to_tick(conv.sqrtX96, tick_spacing))
X96PriceForward == Forward("x96price", float_price_to_sqrtX96(conv.input))
X96PriceBackward == Backward("x96price", sqrtX96_to_float_price(conv.sqrtX96))
LiquidityForward == Forward("liquidity", priceToSqrtPriceX96(conv.input))
LiquidityBackward == Backward("liquidity", sqrtPriceX96ToPrice(conv.sqrtX96))

NextConv ==
    \/ X96TickForward \/ X96TickBackward
    \/ V4TickForward \/ V4TickBackward
    \/ X96PriceForward \/ X96PriceBackward
    \/ LiquidityForward \/ LiquidityBackward

SpecConv == InitConv /\ [][NextConv]_vars

\* ========================================================================
\* Properties
\* ========================================================================
Returned == pc = "done" /\ outcome = "returned"

\* the e0 values a scan from lo to hi by st visits
ScanPoints(lo, hi, st) == {x \in lo .. hi : (x - lo) % st = 0}

\* C1: in both scripts the candidate search() returns satisfies the hard
\* identity exactly: k = (TOTAL_SUPPLY + t0) * e0, k // e0 - t0 = TOTAL_SUPPLY,
\* the stored t_at_zero is TOTAL_SUPPLY, e0 > 0 and t0 >= 0.
C1_HardIdentity ==
    Returned =>
        /\ best.e0 > 0
        /\ best.t0 >= 0
        /\ best.k = (TOTAL_SUPPLY + best.t0) * best.e0
        /\ (best.k \div best.e0) - best.t0 = TOTAL_SUPPLY
        /\ best.t_at_zero = TOTAL_SUPPLY

C1_Witness == Returned /\ best.t0 > 0 /\ best.e0 > 1

\* C2: in the plain script the returned candidate's target_error is
\* |t_at_target - TARGET_TOKENS| >= 0 and is the minimum of target_error over
\* the candidates evaluated, which are the candidates of every e0 of the scan
\* and every t0 within 2 of floor_t0(e0).
PlainScanCandidates ==
    UNION { { evaluate_candidate(x, (t0_real_numerator(x) \div TARGET_ETH_WEI) + d) :
                d \in -2 .. 2 } :
            x \in ScanPoints(min_e0, max_e0, step_e0) } \ {None}

C2_MinTargetError ==
    (script = "plain" /\ Returned) =>
        /\ best.target_error = Abs(best.t_at_target - TARGET_TOKENS)
        /\ best.target_error >= 0
        /\ evaluated = PlainScanCandidates
        /\ \A c \in evaluated : best.target_error <= c.target_error

C2_Witness ==
    /\ script = "plain" /\ Returned
    /\ \E c \in evaluated : c.target_error > best.target_error
    /\ \E c \in evaluated : c.e0 # best.e0

\* C3 as stated: in the fee script the returned candidate's token_error_wei is
\* the minimum of token_error_wei over the candidates evaluated, for any weights.
C3_Original ==
    (script = "fee" /\ Returned) =>
        \A c \in evaluated : best.token_error_wei <= c.token_error_wei

\* C3 amended: in the fee script the returned candidate's token_error_wei is
\* |t_at_grad - TARGET_TOKENS| >= 0, and what is minimal over the candidates
\* evaluated is its composite score, not its token error.
C3_MinScore ==
    (script = "fee" /\ Returned) =>
        /\ best.token_error_wei = Abs(best.t_at_grad - TARGET_TOKENS)
        /\ best.token_error_wei >= 0
        /\ best \in evaluated
        /\ \A c \in evaluated : FracLeq(best.score, c.score)

C3_Witness ==
    /\ script = "fee" /\ Returned
    /\ \E c \in evaluated : c.token_error_wei < best.token_error_wei
    /\ \E c \in evaluated : FracLess(best.score, c.score)

\* C4: for the same min_e0 and max_e0 and two steps s2 < s1 (in wei, neither
\* required to divide the other) for which both plain searches return, the
\* search with the smaller step returns a target_error that is not larger.
BothReturned == run = 2 /\ Returned /\ prev.outcome = "returned"

C4_SmallerStepNoWorse ==
    BothReturned =>
        LET s1 == to_wei(prev.args.step_e0_eth)
            s2 == to_wei(args.step_e0_eth)
        IN  /\ s2 < s1 => best.target_error <= prev.best.target_error
            /\ s1 < s2 => prev.best.target_error <= best.target_error

C4_Witness ==
    /\ BothReturned
    /\ to_wei(args.step_e0_eth) < to_wei(prev.args.step_e0_eth)
    /\ to_wei(prev.args.step_e0_eth) % to_wei(args.step_e0_eth) # 0
    /\ \E c \in prev.evaluated : \A d \in evaluated : d.e0 # c.e0

\* C5: in the fee script, with every other argument the same, for windows
\* 0 <= w1 <= w2: if the search with w1 returns a candidate, the search with w2
\* returns one too, and its composite score is not larger.
C5_WiderWindowNoWorse ==
    (run = 2 /\ pc = "done") =>
        LET w1 == prev.args.t0_window
            w2 == args.t0_window
        IN  /\ (0 <= w1 /\ w1 <= w2 /\ prev.outcome = "returned") =>
                   (outcome = "returned" /\ FracLeq(best.score, prev.best.score))
            /\ (0 <= w2 /\ w2 <= w1 /\ outcome = "returned") =>
                   (prev.outcome = "returned" /\ FracLeq(prev.best.score, best.score))

C5_Witness ==
    /\ BothReturned
    /\ 0 <= prev.args.t0_window /\ prev.args.t0_window < args.t0_window
    /\ FracLess(best.score, prev.best.score)

\* C6: search() raises ValueError, before any candidate is evaluated, exactly
\* when after truncation to wei min_e0 <= 0, max_e0 < min_e0 or step_e0 <= 0
\* (a positive step below one wei truncates to 0), and in the fee script also
\* when t0_window < 0 or target_fee_wei is not in (0, TARGET_ETH_WEI).
\* The truncation of the amount q / SubWei wei, written out:
WeiOf(q) == IF q >= 0 THEN q \div SubWei ELSE -((-q) \div SubWei)

RejectedArgs ==
    \/ WeiOf(args.min_e0_eth) <= 0
    \/ WeiOf(args.max_e0_eth) < WeiOf(args.min_e0_eth)
    \/ WeiOf(args.step_e0_eth) <= 0
    \/ /\ script = "fee"
       /\ \/ args.t0_window < 0
          \/ WeiOf(args.target_fee_eth) <= 0
          \/ WeiOf(args.target_fee_eth) >= TARGET_ETH_WEI

C6_ValueError ==
    /\ pc # "validate" => (outcome = "ValueError" <=> RejectedArgs)
    /\ outcome = "ValueError" => (pc = "done" /\ evaluated = {} /\ best = None)

C6_Witness ==
    /\ outcome = "ValueError"
    /\ args.step_e0_eth > 0
    /\ WeiOf(args.min_e0_eth) > 0
    /\ WeiOf(args.max_e0_eth) >= WeiOf(args.min_e0_eth)

\* C7: with valid arguments search() raises RuntimeError exactly when
\* evaluate_candidate returned None for every (e0, t0) of the scan; when some
\* pair yields a candidate it returns one of the candidates evaluated, and a
\* returned candidate passed every check of evaluate_candidate.
PassedChecks(c) ==
    /\ c.e0 > 0 /\ c.t0 >= 0
    /\ c.t_at_zero = TOTAL_SUPPLY
    /\ script = "fee" =>
          /\ c.t_at_grad > 0
          /\ TARGET_ETH_WEI - WeiOf(args.target_fee_eth) > 0
          /\ c.price_curve[1] > 0

C7_RuntimeError ==
    (pc = "done" /\ outcome # "ValueError") =>
        /\ outcome = "RuntimeError" <=> evaluated = {}
        /\ evaluated # {} => (outcome = "returned" /\ best \in evaluated)
        /\ outcome = "returned" => PassedChecks(best)

C7_Witness == pc = "done" /\ outcome = "RuntimeError" /\ e0 > max_e0 /\ max_e0 >= min_e0 + step_e0

\* C8 as stated: in uniswapX96Pricing.py a tick on the 200 grid survives
\* tick_to_sqrtX96 followed by sqrt_price_x96_to_tick.
C8_RoundTrip ==
    (conv.fn = "x96tick" /\ conv.stage = "done" /\ conv.input % tick_spacing = 0) =>
        conv.output = conv.input

\* C9: in uniswapV4Settings.py a tick on the tick_spacing grid survives
\* tick_to_sqrt_x96 followed by sqrt_x96_to_tick, which rounds to the nearest
\* multiple of tick_spacing.
C9_RoundTrip ==
    (conv.fn = "v4tick" /\ conv.stage = "done" /\ conv.input % tick_spacing = 0) =>
        conv.output = conv.input

\* a grid tick whose square-root price was cut by int() and still came back
C9_Witness ==
    /\ conv.fn = "v4tick" /\ conv.stage = "done"
    /\ conv.input % tick_spacing = 0
    /\ FracLess(<<conv.sqrtX96 * conv.sqrtX96, Q96 * Q96>>, TickPrice(conv.input))
    /\ conv.output = conv.input

\* the round trip of a price: result / input as a fraction
PriceDone == conv.fn \in {"x96price", "liquidity"} /\ conv.stage = "done"

PriceRatio ==
    LET d == conv.output[2] - conv.input[2]
    IN  IF d >= 0 THEN Frac(conv.output[1] * Pow(2, d), conv.input[1])
        ELSE Frac(conv.output[1], conv.input[1] * Pow(2, -d))

\* C10 as stated: the price that comes back is <= p and its relative error is
\* at most the truncation of sqrt(p) * 2^96, about 2 / (sqrt(p) * 2^96).
C10_Original ==
    PriceDone =>
        /\ FracLeq(PriceRatio, <<1, 1>>)
        /\ conv.sqrtX96 > 0 =>
               FracLeq(FracSub(<<1, 1>>, PriceRatio), Frac(2, conv.sqrtX96))

\* C10 amended: with x the integer float_price_to_sqrtX96(p) and r the price
\* that comes back, p * (1 - 4u) * (x / (x + 1)) ^ 2 <= r <= p * (1 + 4u), where
\* u = 2 ^ -SigBits is the rounding unit of the floats (2 ^ -53 for a double):
\* r is within floating-point tolerance of p once int() cuts nothing, and may
\* be larger than p.
FourUnits == Frac(4, Pow(2, SigBits))

C10_Tolerance ==
    PriceDone =>
        LET x == conv.sqrtX96
        IN  /\ FracLeq(PriceRatio, FracAdd(<<1, 1>>, FourUnits))
            /\ FracLeq(FracMul(FracSub(<<1, 1>>, FourUnits),
                               Frac(x * x, (x + 1) * (x + 1))),
                       PriceRatio)

C10_Witness == PriceDone /\ FracLess(<<1, 1>>, PriceRatio) /\ conv.sqrtX96 >= Pow(2, SigBits - 1)

\* the bodies of the while loop a scan of valid arguments runs, and the t0
\* values each body evaluates
LoopCount ==
    IF script = "plain" THEN ((max_e0 - min_e0) \div step_e0) + 1
    ELSE ((max_e0_fee - min_e0_fee) \div step_e0_fee) + 1

PerBody == IF script = "plain" THEN 5 ELSE 2 * args.t0_window + 1

ScanStep == IF script = "plain" THEN step_e0 ELSE step_e0_fee
ScanMin == IF script = "plain" THEN min_e0 ELSE min_e0_fee
ScanMax == IF script = "plain" THEN max_e0 ELSE max_e0_fee

LoopProgress ==
    /\ pc = "outer" =>
          /\ ScanStep > 0
          /\ e0 = ScanMin + iterations * ScanStep
          /\ iterations <= LoopCount
          /\ iterations > 0 => tried = PerBody
    /\ pc = "inner" =>
          /\ e0 = ScanMin + (iterations - 1) * ScanStep
          /\ e0 <= ScanMax
          /\ tried <= PerBody
    /\ (pc \in {"finish", "done"} /\ outcome # "ValueError") =>
          /\ e0 > ScanMax
          /\ iterations = LoopCount
          /\ tried = PerBody
    /\ pc = "done" => outcome \in {"ValueError", "RuntimeError", "returned"}
    /\ (pc = "done" /\ outcome # "ValueError") => outcome \in {"RuntimeError", "returned"}

ArgsValid ==
    /\ ScanMin > 0 /\ ScanMax >= ScanMin /\ ScanStep > 0
    /\ script = "fee" =>
          /\ args.t0_window >= 0
          /\ target_fee_wei > 0 /\ target_fee_wei < TARGET_ETH_WEI

\* the bodies of the while loop still to be entered from the current e0
BodiesLeft == IF e0 > ScanMax THEN 0 ELSE ((ScanMax - e0) \div ScanStep) + 1

\* the steps of search() still to be executed: a body is its loop test, its
\* PerBody evaluations and e0 += step_e0; the last loop test and the final
\* check of best follow
StepsLeft ==
    CASE pc = "validate" ->
             IF ArgsValid THEN 1 + LoopCount * (PerBody + 2) + 2 ELSE 1
      [] pc = "outer" -> BodiesLeft * (PerBody + 2) + 2
      [] pc = "inner" -> (PerBody - tried) + 1 + (BodiesLeft - 1) * (PerBody + 2) + 2
      [] pc = "finish" -> 1
      [] OTHER -> 0

\* C11: search() of both scripts terminates.  With valid arguments e0 starts at
\* min_e0 and grows by step_e0 > 0 per body of the while loop, the loop is left
\* once e0 > max_e0 after exactly floor((max_e0 - min_e0) / step_e0) + 1 bodies,
\* each body evaluates 5 (plain) or 2 * t0_window + 1 (fee) values of t0, and
\* the call ends in ValueError, a returned candidate or RuntimeError.  Every
\* step lowers the finite count StepsLeft by one, a step exists until the
\* count is 0, and the count is 0 exactly at the end of the call: a run that
\* keeps stepping reaches the end.
C11_Terminates ==
    /\ [][StepsLeft' = StepsLeft - 1]_vars
    /\ [](/\ LoopProgress
          /\ StepsLeft >= 0
          /\ StepsLeft = 0 <=> pc = "done"
          /\ pc \in {"validate", "outer", "inner", "finish", "done"})

C11_Witness ==
    /\ pc = "done" /\ outcome \in {"RuntimeError", "returned"}
    /\ iterations >= 3
    /\ (ScanMax - ScanMin) % ScanStep # 0
    /\ script = "fee" => args.t0_window = MaxWindow

\* C12 as stated: the candidate the plain search() returns is a function of
\* its arguments only: two calls with the same arguments, whatever the order
\* in which each visits the five t0 values of the set at every e0, return the
\* same (k, t0, e0).
C12_OrderIndependent ==
    (script = "plain" /\ BothReturned /\ args = prev.args) =>
        /\ best.k = prev.best.k
        /\ best.t0 = prev.best.t0
        /\ best.e0 = prev.best.e0

\* floor(t0_real_numerator(x) / TARGET_ETH_WEI)
floor_t0(x) == t0_real_numerator(x) \div TARGET_ETH_WEI

\* C13: in the plain script the zero-reserve identity check never rejects:
\* for e0 > 0 and t0 >= 0, k = (TOTAL_SUPPLY + t0) * e0 is divisible by e0 and
\* evaluate_candidate(e0, t0) returns a candidate, so every t0 >= 0 the loop
\* has visited at the current e0 left a candidate.  Hence search() with valid
\* arguments raises RuntimeError exactly when floor_t0(e0) + 2 < 0 at every
\* scanned e0, and returns a candidate otherwise.
C13_IdentityNeverRejects ==
    /\ (script = "plain" /\ pc = "inner") =>
          /\ \A t0 \in 0 .. (Abs(floor_t0(e0)) + 2) :
                 /\ ((TOTAL_SUPPLY + t0) * e0) % e0 = 0
                 /\ evaluate_candidate(e0, t0) # None
          /\ \A t0 \in candidate_t0_values(e0) \ todo :
                 t0 >= 0 => \E c \in evaluated : c.e0 = e0 /\ c.t0 = t0
    /\ (script = "plain" /\ pc = "done" /\ outcome # "ValueError") =>
          /\ outcome = "RuntimeError" <=>
                 \A x \in ScanPoints(min_e0, max_e0, step_e0) : floor_t0(x) + 2 < 0
          /\ outcome = "returned" <=>
                 \E x \in ScanPoints(min_e0, max_e0, step_e0) : floor_t0(x) + 2 >= 0

\* a scan that returned although its first e0 offered only negative t0
C13_Witness ==
    /\ script = "plain" /\ Returned
    /\ floor_t0(min_e0) + 2 < 0
    /\ \E c \in evaluated : c.t0 = floor_t0(c.e0) + 2

\* c1 comes before c2 in the scan of the fee script: ascending e0, then
\* ascending t0
ScannedBefore(c1, c2) == c1.e0 < c2.e0 \/ (c1.e0 = c2.e0 /\ c1.t0 < c2.t0)

\* C14: tie-breaking.  In the plain script the returned candidate has the
\* smallest e0 among the evaluated candidates with the minimal target_error.
\* In the fee script the returned candidate is the first one in scan order
\* (ascending e0, then ascending t0) that attains the minimal score: a later
\* candidate replaces the best only on a strictly smaller score.
C14_TieBreaking ==
    /\ (script = "plain" /\ Returned) =>
          \A c \in evaluated :
              /\ best.target_error <= c.target_error
              /\ c.target_error = best.target_error => best.e0 <= c.e0
    /\ (script = "fee" /\ Returned) =>
          \A c \in evaluated :
              /\ FracLeq(best.score, c.score)
              /\ (c.score = best.score /\ c # best) => ScannedBefore(best, c)

\* a fee scan with a weight set in which the best score was met again, both
\* later at the same e0 and at a later e0
C14_Witness ==
    /\ script = "fee" /\ Returned
    /\ args.w_token = 1
    /\ \E c \in evaluated : c.score = best.score /\ c.e0 = best.e0 /\ c.t0 > best.t0
    /\ \E c \in evaluated : c.score = best.score /\ c.e0 > best.e0

\* C15: in the fee script a returned candidate lies in the scanned region and
\* is economically valid: e0 = min_e0 + i * step_e0 for an integer i >= 0 with
\* min_e0 <= e0 <= max_e0; t0 >= 0 and |t0 - floor_t0(e0)| <= t0_window;
\* t_at_grad = k // (TARGET_ETH_WEI + e0) - t0 with 0 < t_at_grad <= TOTAL_SUPPLY;
\* and price_curve > 0.
C15_InScannedRegion ==
    (script = "fee" /\ Returned) =>
        /\ \E i \in 0 .. iterations : best.e0 = min_e0_fee + i * step_e0_fee
        /\ min_e0_fee <= best.e0 /\ best.e0 <= max_e0_fee
        /\ best.t0 >= 0
        /\ Abs(best.t0 - floor_t0_fee(best.e0)) <= args.t0_window
        /\ best.t_at_grad = (best.k \div (TARGET_ETH_WEI + best.e0)) - best.t0
        /\ 0 < best.t_at_grad /\ best.t_at_grad <= TOTAL_SUPPLY
        /\ best.price_curve[1] > 0 /\ best.price_curve[2] > 0

\* a returned candidate on the edge of the window, at an e0 past the first
C15_Witness ==
    /\ script = "fee" /\ Returned
    /\ args.t0_window > 0
    /\ Abs(best.t0 - floor_t0_fee(best.e0)) = args.t0_window
    /\ best.e0 > min_e0_fee
    /\ args.w_token + args.w_fee + args.w_price > 0
====
